---- MODULE Spec2Model ----
(***************************************************************************)
(* Sales dashboard: the in-memory DomainCollection (allData), its upload   *)
(* merge (handleFileUpload), its period purge (handleDataDelete) and the   *)
(* per-domain remote tables (saveDomainData / fetchAllSalesData).          *)
(***************************************************************************)
EXTENDS Integers, Sequences, FiniteSets, TLC

(***************************************************************************)
(* Bounds                                                                  *)
(***************************************************************************)
\* most records a domain may hold for an upload to it to be explored
MaxRecords == 3

(***************************************************************************)
(* Values and records.  A record (OrderData) is the sequence of its        *)
(* [key, value] entries in insertion order, which is what Object.entries   *)
(* and Object.keys return; keys are distinct within a record.              *)
(***************************************************************************)
Null == [t |-> "null", v |-> ""]
Undefined == [t |-> "undef", v |-> ""]
Str(s) == [t |-> "str", v |-> s]
Num(s) == [t |-> "num", v |-> s]
Entry(k, x) == [k |-> k, val |-> x]

RowKeys(row) == [i \in 1..Len(row) |-> row[i].k]
KeySet(row) == {row[i].k : i \in 1..Len(row)}
HasKey(row, k) == \E i \in 1..Len(row) : row[i].k = k
\* row[k]: the value stored under k, undefined when the record has no such key
Get(row, k) ==
  IF HasKey(row, k) THEN (CHOOSE e \in {row[i] : i \in 1..Len(row)} : e.k = k).val
  ELSE Undefined

Range(seq) == {seq[i] : i \in 1..Len(seq)}
UPLOAD_DOMAINS == <<"Myntra", "Amazon", "Flipkart", "AJIO", "Shopify">>
AllDomains == "All Domains"
\* the domains the explored sessions upload to
Domains == {"Myntra", "AJIO"}

\* sample records of the uploaded files
RowA == <<Entry("date", Str("2023-01-15"))>>
RowB == <<Entry("date", Str("2023-02-01"))>>
RowC == <<Entry("date", Str("2022-01-15"))>>
RowD == <<Entry("date", Str("n/a"))>>
RowE == <<Entry("date", Str("15/01/2023")), Entry("sku", Null)>>
RowF == <<Entry("sku", Null), Entry("date", Str("15/01/2023"))>>
RowG == <<Entry("sku", Num("1"))>>
RowH == <<Entry("date", Str("15/01/2023"))>>
\* the files each marketplace exports: each a non-empty sequence of records
Files(domain) ==
  IF domain = "Myntra" THEN { <<RowA, RowA>>, <<RowA, RowB, RowC>> }
  ELSE { <<RowF, RowH, RowE>>, <<RowD>>, <<RowG>> }

(***************************************************************************)
(* rowToString: JSON.stringify(Object.entries(row).sort(by key))           *)
(***************************************************************************)
\* a.localeCompare(b) on the column names of the sample records
localeCompare(a, b) ==
  LET order == <<"amount", "date", "price", "qty", "sku">>
      rank == [k \in {order[i] : i \in 1..Len(order)} |->
                 CHOOSE i \in 1..Len(order) : order[i] = k]
  IN  IF rank[a] < rank[b] THEN -1 ELSE IF rank[a] > rank[b] THEN 1 ELSE 0

\* Array.prototype.sort is stable: e goes after every entry that does not compare greater
InsertEntry(e, s) ==
  LET after == {i \in 1..Len(s) : localeCompare(s[i].k, e.k) <= 0}
      n == IF after = {} THEN 0 ELSE CHOOSE i \in after : \A j \in after : j <= i
  IN  SubSeq(s, 1, n) \o <<e>> \o SubSeq(s, n + 1, Len(s))

RECURSIVE SortEntries(_)
SortEntries(es) ==
  IF es = <<>> THEN <<>>
  ELSE InsertEntry(es[Len(es)], SortEntries(SubSeq(es, 1, Len(es) - 1)))

\* JSON text as a sequence of tokens
JsonValue(x) ==
  CASE x.t = "str" -> <<"\"", x.v, "\"">>
    [] x.t = "num" -> <<x.v>>
    [] OTHER -> <<"null">>

JsonEntry(e) == <<"[", "\"", e.k, "\"", ",">> \o JsonValue(e.val) \o <<"]">>

RECURSIVE JsonItems(_)
JsonItems(es) ==
  IF es = <<>> THEN <<>>
  ELSE IF Len(es) = 1 THEN JsonEntry(es[1])
  ELSE JsonEntry(es[1]) \o <<",">> \o JsonItems(Tail(es))

JSONstringify(es) == <<"[">> \o JsonItems(es) \o <<"]">>

rowToStringUnsorted(row) == JSONstringify(row)
rowToStringDropNull(row) ==
  JSONstringify(SortEntries(SelectSeq(row, LAMBDA e : e.val.t \notin {"null", "undef"})))
rowToString(row) == JSONstringify(SortEntries(row))

(***************************************************************************)
(* handleFileUpload: the dedup filter                                      *)
(***************************************************************************)
RECURSIVE FilterBatch(_, _)
FilterBatch(allKnownRows, newData) ==
  IF newData = <<>> THEN [uniqueNewData |-> <<>>, duplicateCount |-> 0]
  ELSE LET row == Head(newData)
           rowString == rowToString(row)
       IN  IF rowString \in allKnownRows
           THEN LET r == FilterBatch(allKnownRows, Tail(newData))
                IN  [uniqueNewData |-> r.uniqueNewData,
                     duplicateCount |-> r.duplicateCount + 1]
           ELSE LET r == FilterBatch(allKnownRows \cup {rowString}, Tail(newData))
                IN  [uniqueNewData |-> <<row>> \o r.uniqueNewData,
                     duplicateCount |-> r.duplicateCount]

Fingerprints(data) == {rowToString(data[i]) : i \in 1..Len(data)}

DedupNoBatchSet(existingData, newData) ==
  LET known == Fingerprints(existingData)
      keep == SelectSeq(newData, LAMBDA row : rowToString(row) \notin known)
  IN  [uniqueNewData |-> keep, duplicateCount |-> Len(newData) - Len(keep)]
\* (a variant that compares the candidates with each other only)
DedupBatchOnly(existingData, newData) == FilterBatch({}, newData)
\* (a variant that counts only the candidates found among the existing records)
DedupMiscount(existingData, newData) ==
  [uniqueNewData |-> FilterBatch(Fingerprints(existingData), newData).uniqueNewData,
   duplicateCount |-> Len(SelectSeq(newData,
                        LAMBDA row : rowToString(row) \in Fingerprints(existingData)))]
\* lines 71-82
Dedup(existingData, newData) == FilterBatch(Fingerprints(existingData), newData)

PrependNew(existingData, uniqueNewData) == uniqueNewData \o existingData
Consolidate(existingData, uniqueNewData) == existingData \o uniqueNewData

(***************************************************************************)
(* robustParseDate.  A parsed Date is kept as its local calendar fields    *)
(* [year, month], month as getMonth() gives it (0-11); NoDate is null.     *)
(***************************************************************************)
NoDate == [year |-> 0, month |-> -2]
LocalDate(y, m) == [year |-> y, month |-> m - 1]

\* the hours the session's time zone is ahead of UTC
TimeZones == {-5, 5}

\* what the text of a cell looks like: an ISO date-only form, n1/n2/year, or neither
Lex(s) ==
  CASE s = "2023-01-15" -> [fmt |-> "iso", y |-> 2023, n1 |-> 1, n2 |-> 15]
    [] s = "2023-02-01" -> [fmt |-> "iso", y |-> 2023, n1 |-> 2, n2 |-> 1]
    [] s = "2022-01-15" -> [fmt |-> "iso", y |-> 2022, n1 |-> 1, n2 |-> 15]
    [] s = "15/01/2023" -> [fmt |-> "slash", y |-> 2023, n1 |-> 15, n2 |-> 1]
    [] OTHER -> [fmt |-> "none", y |-> 0, n1 |-> 0, n2 |-> 0]

\* the local year and month of UTC midnight of y-m-d in a zone tz hours ahead of UTC
UtcMidnightLocal(y, m, d, zone) ==
  IF zone >= 0 \/ d > 1 THEN LocalDate(y, m)
  ELSE IF m > 1 THEN LocalDate(y, m - 1)
  ELSE LocalDate(y - 1, 12)

\* new Date(x): a date-only ISO string is UTC midnight; n1/n2/year reads as
\* month/day/year local time, and is invalid when n1 is no month; a number is
\* milliseconds since the epoch
NewDate(x, zone) ==
  IF x.t = "num" THEN UtcMidnightLocal(1970, 1, 1, zone)
  ELSE IF x.t # "str" THEN NoDate
  ELSE LET l == Lex(x.v)
       IN  CASE l.fmt = "iso" -> UtcMidnightLocal(l.y, l.n1, l.n2, zone)
             [] l.fmt = "slash" /\ l.n1 \in 1..12 -> LocalDate(l.y, l.n1)
             [] OTHER -> NoDate

\* the /^(\d{1,2})[-/](\d{1,2})[-/](\d{2,4})$/ branch: day, month, year, and
\* new Date(year, month - 1, day), which carries a month outside 1-12 into the
\* year (the day of each sample text lies within its month)
DayMonthYear(x) ==
  IF x.t # "str" THEN NoDate
  ELSE LET l == Lex(x.v)
           year == IF l.y < 100 THEN l.y + 2000 ELSE l.y
       IN  IF l.fmt = "slash"
           THEN [year |-> year + ((l.n2 - 1) \div 12), month |-> (l.n2 - 1) % 12]
           ELSE NoDate

Falsy(x) == x.t \in {"null", "undef"} \/ (x.t = "str" /\ x.v = "") \/ (x.t = "num" /\ x.v = "0")

\* (a variant that reads unparseable text as a day of January 2023)
ParseJunkAsDate(dateValue, zone) ==
  IF Falsy(dateValue) THEN NoDate
  ELSE IF NewDate(dateValue, zone) # NoDate THEN NewDate(dateValue, zone)
  ELSE IF DayMonthYear(dateValue) # NoDate THEN DayMonthYear(dateValue)
  ELSE [year |-> 2023, month |-> 0]
robustParseDate(dateValue, zone) ==
  IF Falsy(dateValue) THEN NoDate
  ELSE IF NewDate(dateValue, zone) # NoDate THEN NewDate(dateValue, zone)
  ELSE DayMonthYear(dateValue)

(***************************************************************************)
(* Column mappings and domain states                                       *)
(***************************************************************************)
standardKeys ==
  <<"date", "customer", "item", "quantity", "price", "city", "state", "zipcode",
    "revenue", "brand", "orderStatus", "cancellationReason", "courier", "sku",
    "articleType", "discount", "deliveredDate", "cancelledDate", "returnDate", "orderId">>
CanonicalKeys == {standardKeys[i] : i \in 1..Len(standardKeys)}
NoCol == "NULL"
finalMapping == [k \in CanonicalKeys |-> NoCol]

NoState == [present |-> FALSE, data |-> <<>>, mapping |-> finalMapping]
DomainState(data, mapping) == [present |-> TRUE, data |-> data, mapping |-> mapping]

\* String.prototype.toLowerCase / toUpperCase, character by character
UpperCaseLetters == "ABCDEFGHIJKLMNOPQRSTUVWXYZ"
LowerCaseLetters == "abcdefghijklmnopqrstuvwxyz"
LowerCaseOf ==
  [c \in {SubSeq(UpperCaseLetters, i, i) : i \in 1..26} |->
     LET i == CHOOSE j \in 1..26 : SubSeq(UpperCaseLetters, j, j) = c
     IN  SubSeq(LowerCaseLetters, i, i)]
UpperCaseOf ==
  [c \in {SubSeq(LowerCaseLetters, i, i) : i \in 1..26} |->
     LET i == CHOOSE j \in 1..26 : SubSeq(LowerCaseLetters, j, j) = c
     IN  SubSeq(UpperCaseLetters, i, i)]
LowerChar(c) == IF c \in DOMAIN LowerCaseOf THEN LowerCaseOf[c] ELSE c
UpperChar(c) == IF c \in DOMAIN UpperCaseOf THEN UpperCaseOf[c] ELSE c
RECURSIVE StringToLowerCase(_)
StringToLowerCase(str) ==
  IF str = "" THEN "" ELSE LowerChar(Head(str)) \o StringToLowerCase(Tail(str))

\* the characters of a column name, and String.prototype.toLowerCase on them
Chars(k) ==
  CASE k = "date" -> <<"d", "a", "t", "e">>
    [] k = "sku" -> <<"s", "k", "u">>
    [] k = "amount" -> <<"a", "m", "o", "u", "n", "t">>
    [] k = "price" -> <<"p", "r", "i", "c", "e">>
    [] k = "qty" -> <<"q", "t", "y">>
    [] OTHER -> <<>>
toLowerCase(cs) == [i \in 1..Len(cs) |-> LowerChar(cs[i])]
includes(cs, pat) ==
  \E i \in 1..(Len(cs) - Len(pat) + 1) : SubSeq(cs, i, i + Len(pat) - 1) = pat

LooksLikeDate(k) ==
  \/ includes(toLowerCase(Chars(k)), <<"d", "a", "t", "e">>)
  \/ includes(toLowerCase(Chars(k)), <<"o", "n">>)

\* mapping.date || Object.keys(data[0] || {}).find(...)
DateKey(st) ==
  IF st.mapping["date"] # NoCol THEN st.mapping["date"]
  ELSE LET keys == IF st.data = <<>> THEN <<>> ELSE RowKeys(st.data[1])
           hits == {i \in 1..Len(keys) : LooksLikeDate(keys[i])}
       IN  IF hits = {} THEN NoCol
           ELSE keys[CHOOSE i \in hits : \A j \in hits : i <= j]

(***************************************************************************)
(* handleDataDelete: the filter of one domain                              *)
(***************************************************************************)
\* (a variant whose filter trusts ParseJunkAsDate)
MatchesJunkToo(row, dateKey, year, month, zone) ==
  LET date == ParseJunkAsDate(Get(row, dateKey), zone)
  IN  date # NoDate /\ date.year = year /\ (month = -1 \/ date.month = month)
\* a record is removed iff Matches: !(matchesYear && matchesMonth) keeps the others
Matches(row, dateKey, year, month, zone) ==
  LET date == robustParseDate(Get(row, dateKey), zone)
  IN  /\ date # NoDate
      /\ date.year = year
      /\ (month = -1 \/ date.month = month)

\* (a variant that returns the kept records in reverse order)
PurgeDataReversed(data, dateKey, year, month, zone) ==
  LET kept == SelectSeq(data, LAMBDA row : ~Matches(row, dateKey, year, month, zone))
  IN  [i \in 1..Len(kept) |-> kept[Len(kept) + 1 - i]]
\* lines 113-119: data.filter keeps the order of the records it keeps
PurgeData(data, dateKey, year, month, zone) ==
  SelectSeq(data, LAMBDA row : ~Matches(row, dateKey, year, month, zone))

(***************************************************************************)
(* Remote tables: saveDomainData writes table domain.toLowerCase();        *)
(* fetchAllSalesData reads DOMAIN_TABLES and maps each back to its key.    *)
(***************************************************************************)
DOMAIN_TABLES == <<"myntra", "amazon", "flipkart", "ajio", "shopify">>
\* line 15: domain.toLowerCase(), for each name handleDataDelete and
\* handleFileUpload can pass
TableNames ==
  [domain \in Range(UPLOAD_DOMAINS) \cup {AllDomains} |-> StringToLowerCase(domain)]
tableName(domain) == TableNames[domain]
Tables == {tableName(d) : d \in Domains}
\* table.charAt(0).toUpperCase() + table.slice(1)
Capitalize(table) == UpperChar(SubSeq(table, 1, 1)) \o SubSeq(table, 2, Len(table))
\* (a variant without the special case of 'ajio')
CapitalizedKeys == [table \in Range(DOMAIN_TABLES) |-> Capitalize(table)]
\* line 50, for each table fetchAllSalesData reads
DomainKeys ==
  [table \in Range(DOMAIN_TABLES) |-> IF table = "ajio" THEN "AJIO" ELSE Capitalize(table)]
domainKey(table) == DomainKeys[table]

(***************************************************************************)
(* UploadModal.processData: the numeric columns of the mapping are         *)
(* cleaned before handleFileUpload is called.                              *)
(***************************************************************************)
\* the decimal text of the whole numbers the sample files and their products hold
Numeral(n) ==
  CASE n = 0 -> "0" [] n = 1 -> "1" [] n = 2 -> "2" [] n = 3 -> "3" [] n = 4 -> "4"
    [] n = 5 -> "5" [] n = 6 -> "6" [] n = 7 -> "7" [] n = 8 -> "8" [] OTHER -> "9"
IsNumeral(s) == \E n \in 0..9 : Numeral(n) = s
IntOf(s) == CHOOSE n \in 0..9 : Numeral(n) = s

\* String(rawValue).replace(/[^0-9.-]+/g, "") on the texts of the sample files
StripNonNumeric(s) ==
  IF IsNumeral(s) THEN s
  ELSE IF s = "Rs 3" THEN "3"
  ELSE ""

\* lines 60-67: null for a blank cell or one parseFloat cannot read, else the number
SanitizeValue(rawValue) ==
  IF rawValue.t \in {"null", "undef"} \/ rawValue.v = "" THEN Null
  ELSE LET cleanedValue == StripNonNumeric(rawValue.v)
       IN  IF IsNumeral(cleanedValue) THEN Num(cleanedValue) ELSE Null

\* newRow[k] = x: in place when the record has the key, appended when it has not
SetKey(row, k, x) ==
  IF HasKey(row, k) THEN [i \in 1..Len(row) |-> IF row[i].k = k THEN Entry(k, x) ELSE row[i]]
  ELSE Append(row, Entry(k, x))

\* lines 52-55
columnsToSanitize(mapping) ==
  SelectSeq(<<mapping["quantity"], mapping["price"], mapping["revenue"], mapping["discount"]>>,
            LAMBDA colName : colName # NoCol)

RECURSIVE SanitizeRow(_, _)
SanitizeRow(row, cols) ==
  IF cols = <<>> THEN row
  ELSE SanitizeRow(SetKey(row, Head(cols), SanitizeValue(Get(row, Head(cols)))), Tail(cols))

\* (a variant that passes the cells on as they were read)
SanitizeNothing(data, mapping) == data
\* lines 57-70
Sanitize(data, mapping) ==
  [i \in 1..Len(data) |-> SanitizeRow(data[i], columnsToSanitize(mapping))]

(***************************************************************************)
(* analyzeCsvData (utils/gemini.ts): the model's answer filtered by the    *)
(* headers, or, when the request fails, a guess from the header names.     *)
(***************************************************************************)
\* the headers of the file as a set
HeaderSet(headers) == {headers[i] : i \in 1..Len(headers)}

\* the last header the guess of one field settles on, null when none matches
LastMatching(headers, matching) ==
  LET hits == {i \in 1..Len(headers) : headers[i] \in matching}
  IN  IF hits = {} THEN NoCol
      ELSE headers[CHOOSE i \in hits : \A j \in hits : j <= i]

Low(h) == toLowerCase(Chars(h))

\* lines 100-113
HeuristicMapping(headers) ==
  [finalMapping EXCEPT
     !["revenue"] = LastMatching(headers,
                      {h \in HeaderSet(headers) :
                         \/ includes(Low(h), <<"r", "e", "v", "e", "n", "u", "e">>)
                         \/ includes(Low(h), <<"s", "a", "l", "e">>)
                         \/ includes(Low(h), <<"a", "m", "o", "u", "n", "t">>)}),
     !["date"] = LastMatching(headers,
                   {h \in HeaderSet(headers) :
                      /\ includes(Low(h), <<"d", "a", "t", "e">>)
                      /\ ~includes(Low(h), <<"d", "e", "l", "i", "v", "e", "r">>)
                      /\ ~includes(Low(h), <<"c", "a", "n", "c", "e", "l">>)}),
     !["orderId"] = LastMatching(headers,
                      {h \in HeaderSet(headers) :
                         \/ includes(Low(h), <<"o", "r", "d", "e", "r", " ", "i", "d">>)
                         \/ includes(Low(h), <<"t", "r", "a", "n", "s", "a", "c", "t", "i", "o", "n">>)}),
     !["city"] = LastMatching(headers,
                   {h \in HeaderSet(headers) : includes(Low(h), <<"c", "i", "t", "y">>)}),
     !["brand"] = LastMatching(headers,
                    {h \in HeaderSet(headers) : includes(Low(h), <<"b", "r", "a", "n", "d">>)})]

\* lines 83-96: an entry of the answer is kept when it names one of the headers
FilteredMapping(headers, answer) ==
  [key \in CanonicalKeys |->
     IF answer[key] # NoCol /\ \E i \in 1..Len(headers) : headers[i] = answer[key]
     THEN answer[key] ELSE NoCol]

\* (a variant whose catch branch guesses nothing)
analyzeCsvDataNoGuess(headers, ai) ==
  IF ai.failed THEN finalMapping ELSE FilteredMapping(headers, ai.answer)
\* ai: whether the request failed, and the answer when it did not
analyzeCsvData(headers, ai) ==
  IF ai.failed THEN HeuristicMapping(headers) ELSE FilteredMapping(headers, ai.answer)

(***************************************************************************)
(* currentDomainData: the 'All Domains' aggregate                          *)
(***************************************************************************)
NaN == [nan |-> TRUE, n |-> 0]
\* Number(x)
ToNumber(x) ==
  CASE x.t = "num" -> [nan |-> FALSE, n |-> IntOf(x.v)]
    [] x.t = "null" -> [nan |-> FALSE, n |-> 0]
    [] x.t = "str" /\ x.v = "" -> [nan |-> FALSE, n |-> 0]
    [] x.t = "str" /\ IsNumeral(x.v) -> [nan |-> FALSE, n |-> IntOf(x.v)]
    [] OTHER -> NaN

\* lines 148-153
NormalizedValue(row, mapping, key) ==
  LET mappedKey == mapping[key]
  IN  IF mappedKey # NoCol /\ Get(row, mappedKey) \notin {Undefined, Null}
      THEN Get(row, mappedKey) ELSE Null

\* (a variant that leaves out the fields without a value)
MappedFieldsOnly(row, mapping) ==
  SelectSeq([i \in 1..Len(standardKeys) |->
               Entry(standardKeys[i], NormalizedValue(row, mapping, standardKeys[i]))],
            LAMBDA e : e.val # Null)
\* lines 146-154
CanonicalFields(row, mapping) ==
  [i \in 1..Len(standardKeys) |->
     Entry(standardKeys[i], NormalizedValue(row, mapping, standardKeys[i]))]

\* (a variant that derives revenue whether or not the record has it)
AlwaysDerive(normalizedRow) ==
  LET price == ToNumber(Get(normalizedRow, "price"))
      quantity == ToNumber(Get(normalizedRow, "quantity"))
  IN  IF /\ Get(normalizedRow, "price") # Null
         /\ Get(normalizedRow, "quantity") # Null
         /\ ~price.nan /\ ~quantity.nan
      THEN SetKey(normalizedRow, "revenue", Num(Numeral(price.n * quantity.n)))
      ELSE normalizedRow
\* lines 155-159
DeriveRevenue(normalizedRow) ==
  IF /\ Get(normalizedRow, "revenue") = Null
     /\ Get(normalizedRow, "price") # Null
     /\ Get(normalizedRow, "quantity") # Null
  THEN LET price == ToNumber(Get(normalizedRow, "price"))
           quantity == ToNumber(Get(normalizedRow, "quantity"))
       IN  IF ~price.nan /\ ~quantity.nan
           THEN SetKey(normalizedRow, "revenue", Num(Numeral(price.n * quantity.n)))
           ELSE normalizedRow
  ELSE normalizedRow

\* lines 145-161
NormalizeRow(row, mapping) == DeriveRevenue(CanonicalFields(row, mapping))

consolidatedMapping == [k \in CanonicalKeys |-> k]

\* (a variant that takes every domain the collection has an entry for)
HasEntry(st) == st.present
\* line 134: !!d?.data?.length
HoldsRecords(st) == st.present /\ Len(st.data) > 0

RECURSIVE FlatMap(_, _)
\* lines 143-162 over Object.values(allData), in key order
FlatMap(keys, collection) ==
  IF keys = <<>> THEN <<>>
  ELSE LET st == collection[Head(keys)]
       IN  (IF HoldsRecords(st)
            THEN [i \in 1..Len(st.data) |-> NormalizeRow(st.data[i], st.mapping)]
            ELSE <<>>)
           \o FlatMap(Tail(keys), collection)

\* lines 133-173; null is NoState
Aggregate(keys, collection) ==
  IF \A i \in 1..Len(keys) : ~HoldsRecords(collection[keys[i]]) THEN NoState
  ELSE DomainState(FlatMap(keys, collection), consolidatedMapping)

(***************************************************************************)
(* State                                                                   *)
(***************************************************************************)
VARIABLES
  tz,                \* the session's time zone (hours ahead of UTC)
  allData,           \* the DomainCollection: domain -> DomainState or NoState
  allKeys,           \* Object.keys(allData): the domains in insertion order
  remote,            \* the payload of row id 1 of each domain table
  isInitialLoading,
  upload,            \* the handleFileUpload call in progress, or the last one
  aiFailed,          \* whether analyzeCsvData took its catch branch for that call
  purge,             \* the handleDataDelete call in progress, or the last one
  activeDomain, currentView, uploadSummary

vars == <<tz, allData, allKeys, remote, isInitialLoading, upload, aiFailed, purge,
          activeDomain, currentView, uploadSummary>>

NoSummary == [domain |-> "", added |-> 0, duplicates |-> 0]
IdleUpload ==
  [pc |-> "idle", domain |-> "", newData |-> <<>>, existingData |-> <<>>,
   uniqueNewData |-> <<>>, duplicateCount |-> 0, newDomainState |-> NoState]
IdlePurge ==
  [pc |-> "idle", target |-> "", year |-> 0, month |-> 0, domainsToPurge |-> <<>>,
   i |-> 0, before |-> [d \in Domains |-> NoState],
   nextAllData |-> [d \in Domains |-> NoState], nextKeys |-> <<>>,
   attempted |-> <<>>, failed |-> {}]

Init ==
  /\ tz \in TimeZones
  /\ allData = [d \in Domains |-> NoState]
  /\ allKeys = <<>>
  /\ remote = [t \in Tables |-> NoState]
  /\ isInitialLoading = TRUE
  /\ upload = IdleUpload
  /\ aiFailed = FALSE
  /\ purge = IdlePurge
  /\ activeDomain = AllDomains
  /\ currentView = "Dashboard"
  /\ uploadSummary = NoSummary

Orders(S) == {o \in [1..Cardinality(S) -> S] : Range(o) = S}

\* no modal is busy: the upload modal and the purge modal each cover the page
\* and stay open until the call they started has returned.  The explored
\* sessions start the next operation after the upload toast has gone and the
\* user is back on the 'All Domains' page.
Quiet ==
  /\ ~isInitialLoading
  /\ uploadSummary = NoSummary
  /\ activeDomain = AllDomains
  /\ upload.pc \in {"idle", "done", "failed"}
  /\ purge.pc \in {"idle", "done"}

(***************************************************************************)
(* loadData.  fetchAllSalesData reads the tables concurrently, skips a     *)
(* table whose read fails or returns no row, inserts the others as they    *)
(* arrive, and resolves: each read catches its own error, so the call      *)
(* never rejects.                                                          *)
(***************************************************************************)
\* the results fetchAllSalesData can settle with
fetchAllSalesData ==
  UNION { { [rejected |-> FALSE,
             keys |-> [i \in 1..Len(arrival) |-> domainKey(arrival[i])],
             data |-> [d \in Domains |->
                         LET at == {i \in 1..Len(arrival) : domainKey(arrival[i]) = d}
                         IN  IF at = {} THEN NoState
                             ELSE remote[arrival[CHOOSE i \in at : \A j \in at : j <= i]]]]
            : arrival \in Orders(got) }
          : got \in SUBSET {t \in Tables : remote[t].present} }

\* localStorage.getItem('salesDashboardData'), parsed: a copy an earlier
\* session left in the browser; nothing in the program writes it
savedData ==
  [exists |-> TRUE, keys |-> <<"Myntra">>,
   data |-> [d \in Domains |->
               IF d = "Myntra"
               THEN DomainState(<<RowC>>, [finalMapping EXCEPT !["date"] = "date"])
               ELSE NoState]]

\* lines 48-58
LoadData ==
  /\ isInitialLoading
  /\ \E result \in fetchAllSalesData :
       IF result.rejected
       THEN IF savedData.exists
            THEN allData' = savedData.data /\ allKeys' = savedData.keys
            ELSE UNCHANGED <<allData, allKeys>>
       ELSE allData' = result.data /\ allKeys' = result.keys
  /\ isInitialLoading' = FALSE
  /\ UNCHANGED <<tz, aiFailed, remote, upload, purge, activeDomain, currentView, uploadSummary>>

\* the page is reloaded: the component is constructed again
Reload ==
  /\ Quiet
  /\ allData' = [d \in Domains |-> NoState]
  /\ allKeys' = <<>>
  /\ isInitialLoading' = TRUE
  /\ upload' = IdleUpload
  /\ aiFailed' = FALSE
  /\ purge' = IdlePurge
  /\ activeDomain' = AllDomains
  /\ currentView' = "Dashboard"
  /\ uploadSummary' = NoSummary
  /\ UNCHANGED <<tz, remote>>

(***************************************************************************)
(* handleFileUpload                                                        *)
(***************************************************************************)
\* the mapping analyzeCsvData returns for each sample file: every non-null
\* entry is one of the headers of the file
Mappings(newData) ==
  IF newData[1] \in {RowA} THEN {[finalMapping EXCEPT !["date"] = "date"]}
  ELSE {finalMapping}

\* lines 64-85: the synchronous part, up to the await of saveDomainData
UploadBegin(domain, newData, newMapping) ==
  LET existingData == allData[domain].data
      r == Dedup(existingData, newData)
      consolidatedData == Consolidate(existingData, r.uniqueNewData)
  IN  /\ Len(consolidatedData) <= MaxRecords
      /\ upload' = [pc |-> "saving", domain |-> domain, newData |-> newData,
                    existingData |-> existingData,
                    uniqueNewData |-> r.uniqueNewData,
                    duplicateCount |-> r.duplicateCount,
                    newDomainState |-> DomainState(consolidatedData, newMapping)]

\* handleFileUpload called with a file whose analysis succeeded
UploadStart(domain, newData, newMapping) ==
  /\ Quiet
  /\ UploadBegin(domain, newData, newMapping)
  /\ purge' = IdlePurge
  /\ UNCHANGED <<tz, aiFailed, allData, allKeys, remote, isInitialLoading, activeDomain,
                 currentView, uploadSummary>>

\* saveDomainData: the upsert reaches the table
UploadRemoteWrite ==
  /\ upload.pc = "saving"
  /\ remote' = [remote EXCEPT ![tableName(upload.domain)] = upload.newDomainState]
  /\ upload' = [upload EXCEPT !.pc = "written"]
  /\ UNCHANGED <<tz, aiFailed, allData, allKeys, isInitialLoading, purge, activeDomain,
                 currentView, uploadSummary>>

\* (a variant that does not wait for the save)
UploadResumeEarly ==
  /\ upload.pc = "saving"
  /\ allData' = [allData EXCEPT ![upload.domain] = upload.newDomainState]
  /\ allKeys' = IF upload.domain \in Range(allKeys) THEN allKeys
                ELSE Append(allKeys, upload.domain)
  /\ uploadSummary' = [domain |-> upload.domain, added |-> Len(upload.uniqueNewData),
                       duplicates |-> upload.duplicateCount]
  /\ activeDomain' = upload.domain
  /\ currentView' = "Dashboard"
  /\ upload' = [upload EXCEPT !.pc = "done"]
  /\ UNCHANGED <<tz, aiFailed, remote, isInitialLoading, purge>>

\* lines 90-94: the save has resolved
UploadResume ==
  /\ upload.pc = "written"
  /\ allData' = [allData EXCEPT ![upload.domain] = upload.newDomainState]
  /\ allKeys' = IF upload.domain \in Range(allKeys) THEN allKeys
                ELSE Append(allKeys, upload.domain)
  /\ uploadSummary' = [domain |-> upload.domain, added |-> Len(upload.uniqueNewData),
                       duplicates |-> upload.duplicateCount]
  /\ activeDomain' = upload.domain
  /\ currentView' = "Dashboard"
  /\ upload' = [upload EXCEPT !.pc = "done"]
  /\ UNCHANGED <<tz, aiFailed, remote, isInitialLoading, purge>>

\* (a variant whose catch branch goes to the uploaded domain's dashboard)
UploadSaveFailReset ==
  /\ upload.pc = "saving"
  /\ upload' = [upload EXCEPT !.pc = "failed"]
  /\ activeDomain' = upload.domain
  /\ currentView' = "Dashboard"
  /\ uploadSummary' = NoSummary
  /\ UNCHANGED <<tz, aiFailed, allData, allKeys, remote, isInitialLoading, purge>>

\* (a variant whose catch branch keeps the merged state)
UploadSaveFailCommitted ==
  /\ upload.pc = "saving"
  /\ upload' = [upload EXCEPT !.pc = "failed"]
  /\ allData' = [allData EXCEPT ![upload.domain] = upload.newDomainState]
  /\ allKeys' = IF upload.domain \in Range(allKeys) THEN allKeys
                ELSE Append(allKeys, upload.domain)
  /\ UNCHANGED <<tz, aiFailed, remote, isInitialLoading, purge, activeDomain,
                 currentView, uploadSummary>>

\* lines 95-97: the save has rejected; pc "failed" is the alert on screen
UploadSaveFail ==
  /\ upload.pc = "saving"
  /\ upload' = [upload EXCEPT !.pc = "failed"]
  /\ UNCHANGED <<tz, aiFailed, allData, allKeys, remote, isInitialLoading, purge, activeDomain,
                 currentView, uploadSummary>>

\* line 92 (the 8 s timer) and the toast's close button
SummaryTimeout ==
  /\ uploadSummary # NoSummary
  /\ uploadSummary' = NoSummary
  /\ UNCHANGED <<tz, aiFailed, allData, allKeys, remote, isInitialLoading, upload, purge,
                 activeDomain, currentView>>

\* Sidebar: setActiveDomain('All Domains')
SelectAllDomains ==
  /\ ~isInitialLoading
  /\ activeDomain # AllDomains
  /\ activeDomain' = AllDomains
  /\ UNCHANGED <<tz, aiFailed, allData, allKeys, remote, isInitialLoading, upload, purge,
                 currentView, uploadSummary>>

(***************************************************************************)
(* handleDataDelete                                                        *)
(***************************************************************************)
DomainsToPurgeAlways(domain, keys) == keys
\* line 101
DomainsToPurge(domain, keys) == IF domain = AllDomains THEN keys ELSE <<domain>>

ResumeFromAbort(ok, i, n) == IF ok THEN i + 1 ELSE n + 1
\* lines 122-126: the loop goes on to the next domain whether the save resolved or rejected
ResumeFrom(ok, i, n) == i + 1

\* (a variant that does not skip a domain without a date column)
NextSaveNoSkip(doms, from, nad) ==
  LET hits == {j \in from..Len(doms) : doms[j] \in Domains /\ nad[doms[j]].present}
  IN  IF hits = {} THEN 0 ELSE CHOOSE j \in hits : \A k \in hits : j <= k
\* (a variant that takes the domains from the end of the list)
NextSaveLast(doms, from, nad) ==
  LET hits == {j \in from..Len(doms) :
                 /\ doms[j] \in Domains
                 /\ nad[doms[j]].present
                 /\ DateKey(nad[doms[j]]) # NoCol}
  IN  IF hits = {} THEN 0 ELSE CHOOSE j \in hits : \A k \in hits : j >= k
\* lines 105-111: the first domain from index `from` on that is not skipped
NextSave(doms, from, nad) ==
  LET hits == {j \in from..Len(doms) :
                 /\ doms[j] \in Domains
                 /\ nad[doms[j]].present
                 /\ DateKey(nad[doms[j]]) # NoCol}
  IN  IF hits = {} THEN 0 ELSE CHOOSE j \in hits : \A k \in hits : j <= k

\* the loop from index `from` up to its next await, or to setAllData(nextAllData)
PurgeRun(p, from) ==
  LET j == NextSave(p.domainsToPurge, from, p.nextAllData)
  IN  IF j = 0
      THEN /\ purge' = [p EXCEPT !.pc = "done", !.i = 0]
           /\ allData' = p.nextAllData
           /\ allKeys' = p.nextKeys
      ELSE LET dom == p.domainsToPurge[j]
               domainState == p.nextAllData[dom]
               newData == PurgeData(domainState.data, DateKey(domainState),
                                    p.year, p.month, tz)
           IN  /\ purge' = [p EXCEPT !.pc = "saving", !.i = j,
                              !.nextAllData[dom] = [domainState EXCEPT !.data = newData],
                              !.attempted = Append(@, dom)]
               /\ UNCHANGED <<allData, allKeys>>

\* DeleteDataModal: the years offered for the selected domain
availableYears(domain) ==
  LET scan == IF domain = AllDomains THEN {d \in Domains : allData[d].present}
              ELSE {d \in Domains : d = domain /\ allData[d].present}
      usable == {d \in scan : allData[d].data # <<>> /\ DateKey(allData[d]) # NoCol}
  IN  UNION { {robustParseDate(Get(allData[d].data[i], DateKey(allData[d])), tz).year :
                 i \in {n \in 1..Len(allData[d].data) :
                          robustParseDate(Get(allData[d].data[n], DateKey(allData[d])), tz)
                            # NoDate}} : d \in usable }

\* the months explored: the whole year, January
Months == {-1, 0}

PurgeStart(domain, year, month) ==
  /\ Quiet
  /\ year \in availableYears(domain)
  /\ PurgeRun([IdlePurge EXCEPT !.target = domain, !.year = year, !.month = month,
                 !.domainsToPurge = DomainsToPurge(domain, allKeys),
                 !.before = allData, !.nextAllData = allData, !.nextKeys = allKeys], 1)
  /\ upload' = IdleUpload
  /\ UNCHANGED <<tz, aiFailed, remote, isInitialLoading, activeDomain, currentView,
                 uploadSummary>>

\* (a variant whose catch branch puts the domain's records back)
PurgeSaveSettledRollback(ok) ==
  /\ purge.pc = "saving"
  /\ LET dom == purge.domainsToPurge[purge.i]
     IN  /\ remote' = IF ok THEN [remote EXCEPT ![tableName(dom)] = purge.nextAllData[dom]]
                      ELSE remote
         /\ PurgeRun([purge EXCEPT !.failed = IF ok THEN @ ELSE @ \cup {dom},
                                    !.nextAllData[dom] = IF ok THEN @ ELSE purge.before[dom]],
                     ResumeFrom(ok, purge.i, Len(purge.domainsToPurge)))
  /\ UNCHANGED <<tz, aiFailed, isInitialLoading, upload, activeDomain, currentView,
                 uploadSummary>>

\* the awaited saveDomainData of the domain at index i resolves or rejects
PurgeSaveSettled(ok) ==
  /\ purge.pc = "saving"
  /\ LET dom == purge.domainsToPurge[purge.i]
     IN  /\ remote' = IF ok THEN [remote EXCEPT ![tableName(dom)] = purge.nextAllData[dom]]
                      ELSE remote
         /\ PurgeRun([purge EXCEPT !.failed = IF ok THEN @ ELSE @ \cup {dom}],
                     ResumeFrom(ok, purge.i, Len(purge.domainsToPurge)))
  /\ UNCHANGED <<tz, aiFailed, isInitialLoading, upload, activeDomain, currentView,
                 uploadSummary>>

Next ==
  \/ LoadData
  \/ Reload
  \/ \E domain \in Domains : \E newData \in Files(domain) :
       \E newMapping \in Mappings(newData) :
         UploadStart(domain, newData, newMapping)
  \/ UploadRemoteWrite
  \/ UploadResume
  \/ UploadSaveFail
  \/ SummaryTimeout
  \/ SelectAllDomains
  \/ \E domain \in Domains \cup {AllDomains}, year \in {1969, 1970, 2022, 2023}, month \in Months :
       PurgeStart(domain, year, month)
  \/ \E ok \in BOOLEAN : PurgeSaveSettled(ok)

Spec == Init /\ [][Next]_vars

(***************************************************************************)
(* The DeleteDataModal whose handleDelete calls onDelete without awaiting  *)
(* it and closes at once: the page is free while the purge is saving.      *)
(***************************************************************************)
\* handleFileUpload called while a purge is awaiting a save
UploadDuringPurge(domain, newData, newMapping) ==
  /\ ~isInitialLoading
  /\ purge.pc = "saving"
  /\ upload.pc \in {"idle", "done", "failed"}
  /\ UploadBegin(domain, newData, newMapping)
  /\ UNCHANGED <<tz, aiFailed, allData, allKeys, remote, isInitialLoading, purge,
                 activeDomain, currentView, uploadSummary>>

\* the sessions explored with this modal: one export per marketplace, and
\* purges of a whole year
NextDetached ==
  \/ LoadData
  \/ \E domain \in Domains :
       LET newData == IF domain = "Myntra" THEN <<RowA, RowB, RowC>> ELSE <<RowG>>
       IN  \E newMapping \in Mappings(newData) :
             \/ UploadStart(domain, newData, newMapping)
             \/ UploadDuringPurge(domain, newData, newMapping)
  \/ UploadRemoteWrite
  \/ UploadResume
  \/ SummaryTimeout
  \/ SelectAllDomains
  \/ \E domain \in Domains \cup {AllDomains}, year \in {2022, 2023} :
       PurgeStart(domain, year, -1)
  \/ PurgeSaveSettled(TRUE)

SpecDetached == Init /\ [][NextDetached]_vars

(***************************************************************************)
(* Uploads through UploadModal.processData, of workbooks with numeric      *)
(* columns, with the analysis answering or failing.                        *)
(***************************************************************************)
RowP == <<Entry("date", Str("2023-01-15")), Entry("price", Str("Rs 3")), Entry("qty", Str("2"))>>
RowQ == <<Entry("date", Str("2023-02-01")), Entry("price", Str("abc")), Entry("qty", Str("2"))>>
RowR == <<Entry("date", Str("2022-01-15")), Entry("amount", Str("6")),
          Entry("price", Str("2")), Entry("qty", Str("2"))>>
RowS == <<Entry("sku", Num("1")), Entry("price", Str("2")), Entry("qty", Str("2"))>>
\* a sheet's rows carry only the cells that are filled in
Workbooks(domain) ==
  IF domain = "Myntra" THEN { <<RowP, RowQ>>, <<RowR>> }
  ELSE { <<RowS, RowH>> }

\* what the model answered: the columns it recognised, and one the file does not have
Answer ==
  [finalMapping EXCEPT !["date"] = "date", !["price"] = "price", !["quantity"] = "qty",
                       !["revenue"] = "amount", !["sku"] = "sku", !["customer"] = "name"]
AiOutcomes == { [failed |-> TRUE, answer |-> finalMapping], [failed |-> FALSE, answer |-> Answer] }

\* processData lines 45-73: analyse, clean, call handleFileUpload
ProcessData(domain, data, ai) ==
  /\ Quiet
  /\ LET headers == RowKeys(data[1])
         mapping == analyzeCsvData(headers, ai)
         sanitizedData == Sanitize(data, mapping)
     IN  UploadBegin(domain, sanitizedData, mapping)
  /\ aiFailed' = ai.failed
  /\ purge' = IdlePurge
  /\ UNCHANGED <<tz, allData, allKeys, remote, isInitialLoading, activeDomain,
                 currentView, uploadSummary>>

NextUploads ==
  \/ LoadData
  \/ \E domain \in Domains : \E data \in Workbooks(domain) : \E ai \in AiOutcomes :
       ProcessData(domain, data, ai)
  \/ UploadRemoteWrite
  \/ UploadResume
  \/ UploadSaveFail
  \/ SummaryTimeout
  \/ SelectAllDomains

SpecUploads == Init /\ [][NextUploads]_vars

(***************************************************************************)
(* The page around an upload: the 'Upload New Data' button of the header   *)
(* is there on every page, whichever domain and view are selected and      *)
(* whether or not the toast of an earlier upload is still shown.  The      *)
(* upload modal covers the sidebar while it is open.                       *)
(***************************************************************************)
Views == {"Dashboard", "PPT"}

\* Sidebar: setActiveDomain(domain)
SelectDomain(domain) ==
  /\ ~isInitialLoading
  /\ upload.pc \in {"idle", "done", "failed"}
  /\ activeDomain # domain
  /\ activeDomain' = domain
  /\ UNCHANGED <<tz, aiFailed, allData, allKeys, remote, isInitialLoading, upload, purge,
                 currentView, uploadSummary>>

\* Sidebar: setCurrentView(view)
SelectView(view) ==
  /\ ~isInitialLoading
  /\ upload.pc \in {"idle", "done", "failed"}
  /\ currentView # view
  /\ currentView' = view
  /\ UNCHANGED <<tz, aiFailed, allData, allKeys, remote, isInitialLoading, upload, purge,
                 activeDomain, uploadSummary>>

\* handleFileUpload called from whatever page is shown
UploadFromPage(domain, newData, newMapping) ==
  /\ ~isInitialLoading
  /\ upload.pc \in {"idle", "done", "failed"}
  /\ purge.pc \in {"idle", "done"}
  /\ UploadBegin(domain, newData, newMapping)
  /\ UNCHANGED <<tz, aiFailed, allData, allKeys, remote, isInitialLoading, purge,
                 activeDomain, currentView, uploadSummary>>

NextViews ==
  \/ LoadData
  \/ \E domain \in Domains :
       LET newData == IF domain = "Myntra" THEN <<RowA, RowA>> ELSE <<RowG>>
       IN  \E newMapping \in Mappings(newData) : UploadFromPage(domain, newData, newMapping)
  \/ UploadRemoteWrite
  \/ UploadResume
  \/ UploadSaveFail
  \/ SummaryTimeout
  \/ \E domain \in Domains \cup {AllDomains} : SelectDomain(domain)
  \/ \E view \in Views : SelectView(view)

SpecViews == Init /\ [][NextViews]_vars

\* lines 132-176
currentDomainData ==
  IF activeDomain = AllDomains THEN Aggregate(allKeys, allData) ELSE allData[activeDomain]

(***************************************************************************)
(* Properties                                                              *)
(***************************************************************************)
NoDuplicateFingerprints(data) ==
  \A i, j \in 1..Len(data) : i # j => rowToString(data[i]) # rowToString(data[j])

\* the records at the indices S of seq, in order
RECURSIVE PickFrom(_, _, _)
PickFrom(seq, S, i) ==
  IF i > Len(seq) THEN <<>>
  ELSE (IF i \in S THEN <<seq[i]>> ELSE <<>>) \o PickFrom(seq, S, i + 1)
Pick(seq, S) == PickFrom(seq, S, 1)

\* the candidates whose fingerprint is neither that of an existing record nor
\* that of an earlier candidate
FreshIndices(existingData, newData) ==
  {i \in 1..Len(newData) :
     /\ \A e \in 1..Len(existingData) : rowToString(existingData[e]) # rowToString(newData[i])
     /\ \A j \in 1..(i - 1) : rowToString(newData[j]) # rowToString(newData[i])}

\* every record the state holds or has in hand
RowsInState ==
  UNION {Range(allData[d].data) : d \in Domains}
    \cup Range(upload.newData) \cup Range(upload.existingData)

SameFields(r1, r2) == Range(r1) = Range(r2)

\* C1: no DomainState, in memory, being saved or stored, holds two records with
\* the same fingerprint
C1_DedupInvariant ==
  /\ \A d \in Domains : NoDuplicateFingerprints(allData[d].data)
  /\ \A t \in Tables : NoDuplicateFingerprints(remote[t].data)
  /\ \A d \in Domains : NoDuplicateFingerprints(purge.nextAllData[d].data)
  /\ NoDuplicateFingerprints(upload.newDomainState.data)
C1_Witness ==
  /\ upload.pc = "done"
  /\ upload.duplicateCount > 0
  /\ Len(allData[upload.domain].data) >= 2
  /\ \E t \in Tables : remote[t].present /\ remote[t].data # <<>>

\* C2: an upload keeps exactly the candidates with a fresh fingerprint, in
\* order, counts the others, and added + duplicates is the batch size
C2_KeepIffFresh ==
  upload.pc # "idle" =>
    LET fresh == FreshIndices(upload.existingData, upload.newData)
    IN  /\ upload.uniqueNewData = Pick(upload.newData, fresh)
        /\ upload.duplicateCount = Len(upload.newData) - Cardinality(fresh)
        /\ Len(upload.uniqueNewData) + upload.duplicateCount = Len(upload.newData)
        /\ (upload.pc = "done" /\ uploadSummary # NoSummary =>
              uploadSummary.added + uploadSummary.duplicates = Len(upload.newData))
C2_Witness ==
  /\ upload.pc = "done"
  /\ upload.existingData = <<>>
  /\ upload.newData = <<RowA, RowA>>
  /\ uploadSummary = [domain |-> "Myntra", added |-> 1, duplicates |-> 1]

\* C3: the step that commits a saved upload leaves the domain with its previous
\* records, in their order, followed by the fresh candidates in batch order
C3_ExistingThenNew ==
  [][upload.pc = "written" /\ upload'.pc = "done" =>
       allData'[upload.domain].data =
         allData[upload.domain].data
           \o Pick(upload.newData, FreshIndices(allData[upload.domain].data, upload.newData))]_vars
C3_Witness ==
  /\ upload.pc = "done"
  /\ upload.existingData # <<>>
  /\ upload.uniqueNewData # <<>>
  /\ upload.duplicateCount > 0
  /\ allData[upload.domain].data = upload.existingData \o upload.uniqueNewData

\* C4: the upload that follows a successful upload of the same batch to the
\* same domain adds nothing, counts the whole batch as duplicates and leaves
\* the record count as it is
C4_Idempotent ==
  [][/\ upload.pc = "done"
     /\ upload'.pc = "saving"
     /\ upload'.domain = upload.domain
     /\ upload'.newData = upload.newData
     => /\ upload'.uniqueNewData = <<>>
        /\ upload'.duplicateCount = Len(upload.newData)
        /\ Len(upload'.newDomainState.data) = Len(allData[upload.domain].data)]_vars
C4_Witness ==
  /\ upload.pc = "done"
  /\ upload.newData = <<RowA, RowB, RowC>>
  /\ upload.existingData = <<RowA, RowB, RowC>>
  /\ upload.uniqueNewData = <<>>
  /\ upload.duplicateCount = 3
  /\ Len(allData[upload.domain].data) = 3

\* C5: records with the same fields and values have the same fingerprint,
\* whatever the order of their fields
C5_OrderIndependent ==
  \A r1 \in RowsInState :
    /\ \A r2 \in RowsInState : SameFields(r1, r2) => rowToString(r1) = rowToString(r2)
    /\ \A o \in Orders(Range(r1)) : rowToString(o) = rowToString(r1)
C5_Witness ==
  /\ upload.pc = "done"
  /\ upload.newData = <<RowF, RowH, RowE>>
  /\ upload.uniqueNewData = <<RowF, RowH>>
  /\ upload.duplicateCount = 1

\* C6: records with different field sets have different fingerprints, also
\* when one lacks a field the other holds as null
C6_FieldSetsDistinguished ==
  \A r1, r2 \in RowsInState : KeySet(r1) # KeySet(r2) => rowToString(r1) # rowToString(r2)
C6_Witness ==
  /\ upload.pc = "done"
  /\ \E i, j \in 1..Len(allData[upload.domain].data) :
       LET r1 == allData[upload.domain].data[i]
           r2 == allData[upload.domain].data[j]
       IN  /\ KeySet(r2) = KeySet(r1) \cup {"sku"}
           /\ ~HasKey(r1, "sku")
           /\ Get(r2, "sku") = Null
           /\ \A k \in KeySet(r1) : Get(r1, k) = Get(r2, k)

\* the calendar year and zero-indexed month a date text is written with
WrittenDate(x) ==
  IF x.t # "str" THEN NoDate
  ELSE LET l == Lex(x.v)
       IN  CASE l.fmt = "iso" -> [year |-> l.y, month |-> l.n1 - 1]
             [] l.fmt = "slash" -> [year |-> l.y, month |-> l.n2 - 1]
             [] OTHER -> NoDate

DatedIn(row, dateKey, year, month) ==
  LET date == WrittenDate(Get(row, dateKey))
  IN  date # NoDate /\ date.year = year /\ (month = -1 \/ date.month = month)

\* the domains a purge has filtered so far
Attempted == Range(purge.attempted)

\* C7: a purge removes from a domain with a date column exactly the records
\* dated in the given year and, unless month is -1, the given month; of the
\* records dated 2023-01-15, 2023-02-01, 2022-01-15, (2023, 0) removes only the
\* first, (2023, -1) the first two, (2022, -1) only the third
C7_PurgeExactness ==
  \A d \in Attempted :
    LET before == purge.before[d]
        after == purge.nextAllData[d].data
    IN  /\ after = SelectSeq(before.data,
                     LAMBDA row : ~DatedIn(row, DateKey(before), purge.year, purge.month))
        /\ before.data = <<RowA, RowB, RowC>> =>
             /\ (purge.year = 2023 /\ purge.month = 0 => after = <<RowB, RowC>>)
             /\ (purge.year = 2023 /\ purge.month = -1 => after = <<RowC>>)
             /\ (purge.year = 2022 /\ purge.month = -1 => after = <<RowA, RowB>>)

\* C8: a purge never removes a record whose date value robustParseDate cannot
\* parse, whatever the target, year and month
C8_PurgeConservatism ==
  \A d \in Domains :
    LET before == purge.before[d]
        Unparseable(row) == robustParseDate(Get(row, DateKey(before)), tz) = NoDate
    IN  /\ SelectSeq(purge.nextAllData[d].data, Unparseable) = SelectSeq(before.data, Unparseable)
        /\ (purge.pc = "done" =>
              SelectSeq(allData[d].data, Unparseable) = SelectSeq(before.data, Unparseable))
C8_Witness ==
  /\ purge.pc = "done"
  /\ \E d \in Attempted :
       /\ \E i \in 1..Len(purge.before[d].data) : purge.before[d].data[i] = RowD
       /\ \E i \in 1..Len(allData[d].data) : allData[d].data[i] = RowD
       /\ Len(allData[d].data) < Len(purge.before[d].data)

\* C9: a purge of one specific domain leaves every other domain's DomainState
\* as it was and saves no other domain
C9_OtherDomainsUntouched ==
  purge.pc # "idle" /\ purge.target # AllDomains =>
    /\ Attempted \subseteq {purge.target}
    /\ \A d \in Domains \ {purge.target} :
         /\ purge.nextAllData[d] = purge.before[d]
         /\ (purge.pc = "done" => allData[d] = purge.before[d])
C9_Witness ==
  /\ purge.pc = "done"
  /\ purge.target = "Myntra"
  /\ Len(allData["Myntra"].data) < Len(purge.before["Myntra"].data)
  /\ allData["AJIO"].present
  /\ \E i \in 1..Len(allData["AJIO"].data) :
       Matches(allData["AJIO"].data[i], DateKey(allData["AJIO"]), purge.year, purge.month, tz)

\* the domains of the collection a purge of 'All Domains' filters and saves:
\* those with a date column, in key order
Purgeable(p) ==
  SelectSeq(p.domainsToPurge,
            LAMBDA d : d \in Domains /\ p.before[d].present /\ DateKey(p.before[d]) # NoCol)

\* C10: a purge of 'All Domains' in which a save has failed still filters and
\* saves every other domain it would otherwise, and completes: it ends having
\* attempted each of them and committed each filtered DomainState
C10_FailureDoesNotStopPurge ==
  purge.target = AllDomains /\ purge.failed # {} =>
    /\ purge.pc \in {"saving", "done"}
    /\ purge.attempted = SubSeq(Purgeable(purge), 1, Len(purge.attempted))
    /\ (purge.pc = "done" =>
          /\ purge.attempted = Purgeable(purge)
          /\ allData = purge.nextAllData
          /\ \A d \in Attempted :
               allData[d].data =
                 PurgeData(purge.before[d].data, DateKey(purge.before[d]),
                           purge.year, purge.month, tz))
C10_Witness ==
  /\ purge.pc = "done"
  /\ purge.target = AllDomains
  /\ Len(purge.attempted) = 2
  /\ purge.failed = {purge.attempted[1]}
  /\ Len(allData[purge.attempted[2]].data) < Len(purge.before[purge.attempted[2]].data)
  /\ remote[tableName(purge.attempted[2])] = allData[purge.attempted[2]]
  /\ remote[tableName(purge.attempted[1])] # allData[purge.attempted[1]]

\* the aggregate the 'All Domains' page shows for the collection as it is
AllDomainsView == Aggregate(allKeys, allData)

\* C11: every record of the 'All Domains' aggregate has exactly the 20
\* canonical keys, each once, each holding a value or null, whatever the
\* columns and the mapping of the domain it comes from
C11_NormalizationComplete ==
  \A i \in 1..Len(AllDomainsView.data) :
    LET record == AllDomainsView.data[i]
    IN  /\ Len(record) = Cardinality(CanonicalKeys)
        /\ KeySet(record) = CanonicalKeys
        /\ Cardinality(CanonicalKeys) = Len(standardKeys)
        /\ \A k \in CanonicalKeys : Get(record, k) # Undefined
C11_Witness ==
  /\ activeDomain = AllDomains
  /\ currentDomainData.present
  /\ \E d \in Domains :
       /\ allData[d].mapping["sku"] = "sku"
       /\ allData[d].mapping["date"] = NoCol
       /\ \E i \in 1..Len(allData[d].data) : ~HasKey(allData[d].data[i], "sku")
       /\ \E i \in 1..Len(allData[d].data) : HasKey(allData[d].data[i], "date")
  /\ \E i \in 1..Len(currentDomainData.data) : Get(currentDomainData.data[i], "sku") = Num("1")

\* the revenue the claim gives a record of a domain: the mapped raw value when
\* there is one, else price x quantity when both are there and are numbers
ClaimedRevenue(row, mapping) ==
  LET raw == IF mapping["revenue"] = NoCol THEN Undefined ELSE Get(row, mapping["revenue"])
      price == NormalizedValue(row, mapping, "price")
      quantity == NormalizedValue(row, mapping, "quantity")
  IN  IF raw \notin {Undefined, Null} THEN raw
      ELSE IF /\ price # Null /\ quantity # Null
              /\ ~ToNumber(price).nan /\ ~ToNumber(quantity).nan
           THEN Num(Numeral(ToNumber(price).n * ToNumber(quantity).n))
           ELSE Null

\* the records of the aggregate that come from the domains before position n
RECURSIVE Offset(_, _)
Offset(keys, n) ==
  IF n <= 1 THEN 0
  ELSE Offset(keys, n - 1)
       + (IF HoldsRecords(allData[keys[n - 1]]) THEN Len(allData[keys[n - 1]].data) ELSE 0)

\* C12: the revenue of a normalized record is the mapped raw revenue when that
\* is mapped and non-null; otherwise price x quantity when both are non-null
\* and parse to numbers; otherwise null
C12_RevenueDerivation ==
  \A n \in 1..Len(allKeys) :
    LET st == allData[allKeys[n]]
    IN  \A i \in 1..Len(st.data) :
          Get(AllDomainsView.data[Offset(allKeys, n) + i], "revenue")
            = ClaimedRevenue(st.data[i], st.mapping)
C12_Witness ==
  /\ activeDomain = AllDomains
  /\ \E d \in Domains :
       LET st == allData[d]
       IN  /\ st.mapping["revenue"] = "amount"
           /\ st.mapping["price"] = "price"
           /\ st.mapping["quantity"] = "qty"
           \* mapped revenue kept although price x quantity is another number
           /\ \E i \in 1..Len(st.data) :
                /\ Get(st.data[i], "amount") = Num("6")
                /\ Get(st.data[i], "price") = Num("2")
                /\ Get(st.data[i], "qty") = Num("2")
                /\ Get(NormalizeRow(st.data[i], st.mapping), "revenue") = Num("6")
           \* a retained record whose price is no number
           /\ \E i \in 1..Len(st.data) :
                /\ Get(st.data[i], "price") = Str("Rs 3")
                /\ Get(NormalizeRow(st.data[i], st.mapping), "revenue") = Null
  /\ \E i \in 1..Len(currentDomainData.data) :
       /\ Get(currentDomainData.data[i], "sku") = Num("1")
       /\ Get(currentDomainData.data[i], "revenue") = Num("4")

RECURSIVE SumOver(_, _)
SumOver(S, f) ==
  IF S = {} THEN 0
  ELSE LET x == CHOOSE y \in S : TRUE IN f[x] + SumOver(S \ {x}, f)

\* C13: the 'All Domains' aggregate holds as many records as the domains of
\* the collection hold together, and is null, not a state with an empty
\* record list, when no domain holds a record
C13_AggregatorUnion ==
  LET counts == [d \in Domains |-> Len(allData[d].data)]
  IN  /\ Range(allKeys) = {d \in Domains : allData[d].present}
      /\ Len(AllDomainsView.data) = SumOver(Domains, counts)
      /\ (SumOver(Domains, counts) = 0 <=> AllDomainsView = NoState)
      /\ (AllDomainsView.present => AllDomainsView.data # <<>>)
      /\ (activeDomain = AllDomains => currentDomainData = AllDomainsView)
C13_Witness ==
  /\ activeDomain = AllDomains
  /\ \E d, e \in Domains :
       /\ allData[d].present /\ allData[d].data = <<>>
       /\ Len(allData[e].data) >= 2
       /\ currentDomainData.present
       /\ Len(currentDomainData.data) = Len(allData[e].data)

\* C14: while an upload is in flight the collection changes only once, after
\* the save has written the merged DomainState, and then takes exactly that
\* state for the uploaded domain: nothing unsaved or partial is shown
C14_PersistBeforeVisible ==
  [][upload.pc \in {"saving", "written"} /\ allData' # allData =>
       /\ upload.pc = "written"
       /\ remote[tableName(upload.domain)] = upload.newDomainState
       /\ allData' = [allData EXCEPT ![upload.domain] = upload.newDomainState]
       /\ upload.newDomainState.data = upload.existingData \o upload.uniqueNewData]_vars
C14_Witness ==
  /\ upload.pc = "done"
  /\ upload.existingData # <<>>
  /\ upload.uniqueNewData # <<>>
  /\ allData[upload.domain] = upload.newDomainState
  /\ remote[tableName(upload.domain)] = upload.newDomainState

\* C15: when the save of an upload rejects, the collection stays as it was
\* before the upload, records and mapping, and the failure is reported
C15_SaveFailureAborts ==
  [][upload.pc # "failed" /\ upload'.pc = "failed" =>
       /\ upload.pc = "saving"
       /\ upload' = [upload EXCEPT !.pc = "failed"]
       /\ allData' = allData
       /\ allKeys' = allKeys
       /\ allData'[upload.domain].data = upload.existingData
       /\ uploadSummary' = uploadSummary]_vars
C15_Witness ==
  /\ upload.pc = "failed"
  /\ upload.uniqueNewData # <<>>
  /\ allData[upload.domain].present
  /\ allData[upload.domain].data = upload.existingData
  /\ allData[upload.domain].mapping # upload.newDomainState.mapping
  /\ remote[tableName(upload.domain)] = allData[upload.domain]

\* C16: an upload whose analysis failed goes on: it is merged and saved with
\* the mapping guessed from the headers (the date and revenue columns the
\* sample headers give away), every other field unset
C16_AnalysisFailureNotFatal ==
  aiFailed =>
    LET headers == KeySet(upload.newData[1])
        mapping == upload.newDomainState.mapping
    IN  /\ upload.pc \in {"saving", "written", "done", "failed"}
        /\ mapping["date"] = (IF "date" \in headers THEN "date" ELSE NoCol)
        /\ mapping["revenue"] = (IF "amount" \in headers THEN "amount" ELSE NoCol)
        /\ \A k \in CanonicalKeys \ {"date", "revenue"} : mapping[k] = NoCol
        /\ upload.uniqueNewData
             = Pick(upload.newData, FreshIndices(upload.existingData, upload.newData))
        /\ upload.newDomainState.data = upload.existingData \o upload.uniqueNewData
C16_Witness ==
  /\ aiFailed
  /\ upload.pc = "done"
  /\ upload.newDomainState.mapping["date"] = "date"
  /\ upload.newDomainState.mapping["revenue"] = "amount"
  /\ upload.uniqueNewData # <<>>
  /\ allData[upload.domain] = upload.newDomainState
  /\ remote[tableName(upload.domain)] = upload.newDomainState

\* C17: in every DomainState each non-null entry of the mapping names a column
\* that its records have, the records kept from earlier uploads included
C17_MappedColumnsExist ==
  \A d \in Domains :
    \A key \in CanonicalKeys :
      allData[d].mapping[key] # NoCol =>
        \A i \in 1..Len(allData[d].data) : HasKey(allData[d].data[i], allData[d].mapping[key])

\* a later upload has installed a mapping whose revenue column a record kept
\* from an earlier upload does not have
C17_Witness ==
  \E d \in Domains :
    /\ upload.pc = "done" /\ upload.domain = d
    /\ upload.existingData # <<>>
    /\ allData[d].mapping["revenue"] = "amount"
    /\ \E i \in 1..Len(upload.existingData) :
         /\ allData[d].data[i] = upload.existingData[i]
         /\ ~HasKey(allData[d].data[i], "amount")

\* what the remote tables hold, as a collection
RemoteCollection == [d \in Domains |-> remote[tableName(d)]]

\* C18: startup ends loading with the collection read from the remote tables
\* or, when reading them failed and nothing was read, with the cached copy
C18_StartupFallsBackToCache ==
  [][isInitialLoading /\ ~isInitialLoading' =>
       \/ allData' = RemoteCollection
       \/ \E d \in Domains : allData'[d].present /\ allData'[d] = remote[tableName(d)]
       \/ savedData.exists /\ allData' = savedData.data]_vars
\* loading has ended with an empty collection although the tables and the
\* cache hold data
C18_Witness ==
  /\ ~isInitialLoading
  /\ upload.pc = "idle" /\ purge.pc = "idle"
  /\ \A d \in Domains : ~allData[d].present
  /\ \E t \in Tables : remote[t].present
  /\ savedData.exists

\* C19: an upload or a purge commits a state computed from the collection as
\* it is when it commits: nothing was committed since it took its snapshot,
\* so no committed upload or purge is overwritten
C19_SingleForegroundFlow ==
  [][/\ purge.pc = "saving" /\ purge'.pc = "done" => purge.before = allData
     /\ upload.pc = "written" /\ upload'.pc = "done" =>
          upload.existingData = allData[upload.domain].data]_vars
\* an upload was saved and committed while a purge was saving, and the purge
\* then committed its older snapshot over it
C19_Witness ==
  /\ purge.pc = "done"
  /\ upload.pc = "done"
  /\ upload.uniqueNewData # <<>>
  /\ remote[tableName(upload.domain)] = upload.newDomainState
  /\ allData[upload.domain] # upload.newDomainState
  /\ allData[upload.domain] = purge.before[upload.domain]

\* C20 as stated: a purge of 'All Domains' has issued the saves of all the
\* domains it purges by the time it waits for any of them
C20_SavesConcurrent ==
  purge.target = AllDomains /\ purge.pc = "saving" =>
    purge.attempted = Purgeable(purge)

\* C20 as the code has it: a purge saves one domain at a time, in the key
\* order of the collection: while a save is in flight every earlier save has
\* settled and no later domain has been filtered yet
C20_SavesOneAtATime ==
  purge.pc = "saving" =>
    LET n == Len(purge.attempted)
        todo == IF purge.target = AllDomains THEN Purgeable(purge) ELSE <<purge.target>>
    IN  /\ n >= 1
        /\ purge.domainsToPurge[purge.i] = purge.attempted[n]
        /\ purge.attempted = SubSeq(todo, 1, n)
        /\ \A k \in 1..(n - 1) :
             \/ purge.attempted[k] \in purge.failed
             \/ remote[tableName(purge.attempted[k])] = purge.nextAllData[purge.attempted[k]]
        /\ \A k \in (n + 1)..Len(todo) : purge.nextAllData[todo[k]] = purge.before[todo[k]]
        /\ allData = purge.before
C20_Witness ==
  /\ purge.pc = "saving"
  /\ purge.target = AllDomains
  /\ Len(purge.attempted) = 2
  /\ purge.failed = {}
  /\ remote[tableName(purge.attempted[1])] = purge.nextAllData[purge.attempted[1]]
  /\ purge.nextAllData[purge.attempted[1]] # purge.before[purge.attempted[1]]
  /\ remote[tableName(purge.attempted[2])] # purge.nextAllData[purge.attempted[2]]

\* C21: when the save of a purged domain fails, the purge still commits that
\* domain's filtered records (nothing is put back) and its mapping; if records
\* were removed, the domain's state in memory then differs from the state in
\* its table, which still holds them
C21_FailedSaveNotRolledBack ==
  purge.pc = "done" =>
    \A d \in purge.failed :
      LET filtered == PurgeData(purge.before[d].data, DateKey(purge.before[d]),
                                purge.year, purge.month, tz)
      IN  /\ allData[d] = [purge.before[d] EXCEPT !.data = filtered]
          /\ (filtered # purge.before[d].data =>
                /\ remote[tableName(d)] # allData[d]
                /\ Len(remote[tableName(d)].data) > Len(allData[d].data))
C21_Witness ==
  /\ purge.pc = "done"
  /\ \E d \in purge.failed :
       /\ Len(allData[d].data) < Len(purge.before[d].data)
       /\ remote[tableName(d)] = purge.before[d]
       /\ remote[tableName(d)] # allData[d]

\* C22: the 'All Domains' aggregate lists the domains' normalized records in
\* the configured order of the domains (Myntra before AJIO), whatever the
\* order in which the domains were loaded or uploaded
C22_ConfiguredOrder ==
  AllDomainsView =
    Aggregate(SelectSeq(UPLOAD_DOMAINS, LAMBDA d : d \in Domains), allData)
C22_Witness ==
  /\ allKeys = <<"AJIO", "Myntra">>
  /\ HoldsRecords(allData["AJIO"])
  /\ HoldsRecords(allData["Myntra"])
  /\ activeDomain = AllDomains
  /\ AllDomainsView.data[1] = NormalizeRow(allData["AJIO"].data[1], allData["AJIO"].mapping)

\* the domain has an entry, its mapping names no date column and no column
\* name of any of its records contains 'date' or 'on'
NoDateColumn(st) ==
  /\ st.present
  /\ st.mapping["date"] = NoCol
  /\ \A i \in 1..Len(st.data) : \A k \in KeySet(st.data[i]) : ~LooksLikeDate(k)

\* C23: a purge leaves a domain for which no date column can be determined as
\* it was: at every step of the purge the domain is not filtered, no save of
\* it is issued, its table is not written, it is not among the failures, and
\* the purge commits its DomainState unmodified
C23_NoDateColumnSkipped ==
  [][ purge' # purge /\ purge'.pc # "idle" =>
        \A d \in Domains :
          NoDateColumn(purge'.before[d]) =>
            /\ d \notin Range(purge'.attempted)
            /\ d \notin purge'.failed
            /\ purge'.nextAllData[d] = purge'.before[d]
            /\ remote'[tableName(d)] = remote[tableName(d)]
            /\ (purge'.pc = "done" => allData'[d] = purge'.before[d]) ]_vars
C23_Witness ==
  /\ purge.pc = "done"
  /\ purge.target = AllDomains
  /\ \E d \in Domains :
       /\ NoDateColumn(purge.before[d])
       /\ Len(purge.before[d].data) > 0
       /\ Range(purge.domainsToPurge) = Domains
       /\ allData[d] = purge.before[d]
       /\ \E e \in Range(purge.attempted) :
            Len(allData[e].data) < Len(purge.before[e].data)

\* C24: a domain that has a DomainState in the collection has one in every
\* later state, whatever the uploads and purges and however they interleave
C24_EntriesNeverRemoved ==
  [][ \A d \in Domains : allData[d].present => allData'[d].present ]_vars
C24_Witness ==
  /\ upload.pc = "done"
  /\ purge.pc = "done"
  /\ ~allData[upload.domain].present
  /\ remote[tableName(upload.domain)] = upload.newDomainState
  /\ \E e \in Range(purge.attempted) : Len(allData[e].data) < Len(purge.before[e].data)

\* a is b with some elements left out: the elements of a are elements of b
\* at increasing positions
IsSubsequence(a, b) ==
  \E f \in [1..Len(a) -> 1..Len(b)] :
    /\ \A i \in 1..Len(a) : a[i] = b[f[i]]
    /\ \A i, j \in 1..Len(a) : i < j => f[i] < f[j]

\* C25: a purge never adds or reorders data: the records of each domain it
\* filters, and those it commits, are an order-preserving subsequence of the
\* domain's records before the purge, and the domain's mapping is unchanged
C25_PurgeOnlyRemoves ==
  purge.pc # "idle" =>
    \A d \in Domains :
      /\ purge.nextAllData[d].present = purge.before[d].present
      /\ purge.nextAllData[d].mapping = purge.before[d].mapping
      /\ IsSubsequence(purge.nextAllData[d].data, purge.before[d].data)
      /\ (purge.pc = "done" =>
            /\ allData[d].present = purge.before[d].present
            /\ allData[d].mapping = purge.before[d].mapping
            /\ IsSubsequence(allData[d].data, purge.before[d].data))
C25_Witness ==
  /\ purge.pc = "done"
  /\ \E d \in Range(purge.attempted) :
       /\ Len(purge.before[d].data) = 3
       /\ Len(allData[d].data) = 2
       /\ allData[d].data[1] # allData[d].data[2]
       /\ allData[d].mapping["date"] # NoCol

\* C26: the domain key survives the round trip through the table name: each
\* of the five upload domains is saved to one of the tables fetchAllSalesData
\* reads, that table is read back under the domain's own key, and no other
\* table is read back under it; a collection just loaded holds, under each
\* key it has, the state saved in that domain's table
C26_DomainKeyRoundTrip ==
  /\ \A d \in Range(UPLOAD_DOMAINS) :
       /\ tableName(d) \in Range(DOMAIN_TABLES)
       /\ domainKey(tableName(d)) = d
       /\ \A t \in Range(DOMAIN_TABLES) : domainKey(t) = d => t = tableName(d)
  /\ (~isInitialLoading /\ upload = IdleUpload /\ purge = IdlePurge =>
        /\ Range(allKeys) \subseteq Range(UPLOAD_DOMAINS)
        /\ \A d \in Domains :
             /\ d \in Range(allKeys) <=> allData[d].present
             /\ allData[d].present => allData[d] = remote[tableName(d)])
C26_Witness ==
  /\ ~isInitialLoading
  /\ upload = IdleUpload
  /\ purge = IdlePurge
  /\ allKeys = <<"AJIO", "Myntra">>
  /\ \A d \in Domains :
       allData[d].present /\ Len(allData[d].data) > 0 /\ allData[d] = remote[tableName(d)]

\* C27: an upload changes the active domain, the current view and the upload
\* summary only when its save has succeeded: the step on which the save fails
\* leaves all three as they were, as do the steps of an upload before its
\* save settles; the step after a successful save sets them
C27_FailedUploadLeavesPage ==
  [][ /\ (upload.pc # "failed" /\ upload'.pc = "failed" =>
            /\ upload.pc = "saving"
            /\ UNCHANGED <<activeDomain, currentView, uploadSummary>>)
      /\ (upload' # upload /\ upload'.pc \in {"saving", "written"} =>
            UNCHANGED <<activeDomain, currentView, uploadSummary>>)
      /\ (upload.pc # "done" /\ upload'.pc = "done" =>
            /\ activeDomain' = upload.domain
            /\ currentView' = "Dashboard"
            /\ uploadSummary' = [domain |-> upload.domain,
                                 added |-> Len(upload.uniqueNewData),
                                 duplicates |-> upload.duplicateCount]) ]_vars
C27_Witness ==
  /\ upload.pc = "failed"
  /\ currentView = "PPT"
  /\ activeDomain \notin {AllDomains, upload.domain}
  /\ uploadSummary # NoSummary
  /\ uploadSummary.domain # upload.domain

====
